---- MODULE Spec2Model ----
(***************************************************************************)
(* Model of the presto-measure control scripts:                            *)
(*   ramsey_echo.py         Ramsey-echo pulse program (script body)        *)
(*   t1_memory_coherent.py  T1_memory_coherent.run / save / load / analyze *)
(*   two_tone_power.py      two-tone power sweep (script body)             *)
(*                                                                         *)
(* Times.  The scripts keep the running time T as a float.  The model      *)
(* keeps exact arithmetic: durations are integers in ticks (1 tick = 1 ns  *)
(* for the constants of the source) and T is kept in half-ticks, so that   *)
(* the halved echo delay ii * dt_delays / 2 stays exact for odd products.  *)
(* Floating-point rounding of the accumulated sums is not modelled.        *)
(***************************************************************************)
EXTENDS Integers, Sequences, FiniteSets, TLC

VARIABLES
    prog,       \* which program runs: "ramsey", "t1" or "twotone"
    cfg,        \* the constants at the top of a script / the constructor arguments
    pc,         \* position in the program
    defined,    \* names of the script parameters that have been assigned
    hw,         \* instrument state as commanded by the driver calls
    T,          \* running time of the pulse program, in half-ticks
    ii,         \* loop index of the (inner) sweep loop
    jj,         \* loop index of the outer loop (two-tone amplitude index)
    timeline,   \* the scheduled (timestamp, action) entries, in issue order
    period,     \* the period argument given to pls.run; NoPeriod before
    nRun,       \* how many times pls.run was called
    data,       \* t_arr / store_arr held by the program: "none" or "acquired"
    file,       \* the persisted record; NoFile before the save
    events,     \* the phases of the run in the order they began; in the two-tone
                \* sweep each instrument call of the loop is an entry of its own
    resp,       \* two-tone: how many times each resp_arr cell was written
    ana         \* T1 analyze call in progress (arguments and fit result)

vars == <<prog, cfg, pc, defined, hw, T, ii, jj, timeline, period, nRun,
          data, file, events, resp, ana>>

-----------------------------------------------------------------------------
(* Bounds of the model                                                     *)
MaxDelays == 3      \* sweep points per program (nr_delays, len(delay_arr))
MaxDt     == 2      \* largest step / delay value, in ticks
MaxDur    == 2      \* largest pulse duration, in ticks
MaxWait   == 1      \* largest wait_delay and readout_sample_delay, in ticks
MaxNeg    == 3      \* most negative delay offered to the T1 constructor
MaxAmps   == 2      \* two-tone: amplitudes in the sweep
MaxFreq   == 2      \* two-tone: frequencies in the sweep

(* Constants of src/ramsey_echo.py, in ns                                  *)
control_duration_ns     == 20
readout_duration_ns     == 2000
nr_delays_src           == 256
dt_delays_ns            == 400
wait_delay_ns           == 200000
readout_sample_delay_ns == 290
readout_port_src        == 1
control_port_q1         == 3
control_port_q2         == 4

NoPeriod == 0 - 1
NoFile   == [written |-> FALSE, attrs |-> {}, datasets |-> {}, cfg |-> <<>>,
             data |-> "none"]
NoAna    == [active |-> FALSE, beta_given |-> FALSE, all_plots |-> FALSE,
             npopt |-> 0, figs |-> 0]

-----------------------------------------------------------------------------
(* Helpers                                                                 *)

\* a duration in ticks as a time in half-ticks
Tm(x) == 2 * x

\* half of a duration of x ticks, as a time in half-ticks
HalfTm(x) == x

Last(s) == s[Len(s)]

\* the phase log: a phase is entered once, consecutive steps of it are one entry
Log(ev, tag) == IF Len(ev) > 0 /\ Last(ev) = tag THEN ev ELSE Append(ev, tag)

\* s[lo] + ... + s[hi], by halving the range (the depth stays logarithmic)
RECURSIVE SumRange(_, _, _)
SumRange(s, lo, hi) ==
    IF lo > hi THEN 0
    ELSE IF lo = hi THEN s[lo]
    ELSE LET mid == (lo + hi) \div 2
         IN  SumRange(s, lo, mid) + SumRange(s, mid + 1, hi)

SumSeq(s) == SumRange(s, 1, Len(s))

MaxOf(S) == CHOOSE x \in S : \A y \in S : y <= x

Entry(t, act, what, port, dur, idx) ==
    [t |-> t, act |-> act, what |-> what, port |-> port, dur |-> dur, idx |-> idx]

\* scales: 0 is a muted output, k > 0 the k-th amplitude of the sweep
HwInit == [connected |-> FALSE, lmx |-> "off", dc_bias |-> "zero",
           running |-> FALSE, cavity_scale |-> 0, qubit_scale |-> 0,
           mixer |-> 0, dma |-> "idle", dirty |-> FALSE]

-----------------------------------------------------------------------------
(* Configurations.  The scripts hard-code their constants; the model draws  *)
(* them from small sets, plus the constants of the source as written.       *)

BaseCfg == [WHICH_QUBIT |-> 0, WITH_COUPLER |-> FALSE, USE_JPA |-> FALSE,
            control_duration |-> 0, readout_duration |-> 0, memory_duration |-> 0,
            dt_delays |-> 0, nr_delays |-> 0, delay_arr |-> <<>>,
            wait_delay |-> 0, readout_sample_delay |-> 0,
            nr_amps |-> 0, nr_freq |-> 0]

\* src/ramsey_echo.py as written (lines 15-17, 57-76), times in ns
RamseySourceCfg ==
    [BaseCfg EXCEPT !.WHICH_QUBIT = 2, !.WITH_COUPLER = FALSE, !.USE_JPA = TRUE,
                    !.control_duration = control_duration_ns,
                    !.readout_duration = readout_duration_ns,
                    !.dt_delays = dt_delays_ns,
                    !.nr_delays = nr_delays_src,
                    !.wait_delay = wait_delay_ns,
                    !.readout_sample_delay = readout_sample_delay_ns]

RamseySmallCfgs ==
    { [BaseCfg EXCEPT !.WHICH_QUBIT = q, !.WITH_COUPLER = wc, !.USE_JPA = uj,
                      !.control_duration = c, !.readout_duration = ro,
                      !.dt_delays = dt, !.nr_delays = n,
                      !.wait_delay = w, !.readout_sample_delay = rsd] :
        q \in 0..3, wc \in BOOLEAN, uj \in BOOLEAN,
        c \in 1..MaxDur, ro \in {1, MaxDur}, dt \in 0..MaxDt, n \in 1..MaxDelays,
        w \in {0, MaxWait}, rsd \in {0, MaxWait} }

RamseyCfgs == RamseySmallCfgs \cup {RamseySourceCfg}

\* values offered as elements of delay_arr: the constructor (lines 21-62) checks nothing
DelayVals == {0 - MaxNeg, 0, MaxDt}

DelayArrs == UNION { [1..n -> DelayVals] : n \in 1..MaxDelays }

T1Cfgs ==
    { [BaseCfg EXCEPT !.memory_duration = m, !.control_duration = 1,
                      !.readout_duration = MaxDur, !.delay_arr = da,
                      !.wait_delay = w, !.readout_sample_delay = rsd] :
        m \in 1..MaxDur, da \in DelayArrs, w \in {0, MaxWait}, rsd \in {0, MaxWait} }

TwoToneCfgs ==
    { [BaseCfg EXCEPT !.nr_amps = na, !.nr_freq = nf] :
        na \in 1..MaxAmps, nf \in 1..MaxFreq }

StartPc(p) == CASE p = "ramsey"  -> "r_select"
                [] p = "t1"      -> "t_connect"
                [] p = "twotone" -> "w_connect"

Init ==
    /\ prog \in {"ramsey", "t1", "twotone"}
    /\ cfg \in CASE prog = "ramsey"  -> RamseyCfgs
                 [] prog = "t1"      -> T1Cfgs
                 [] prog = "twotone" -> TwoToneCfgs
    /\ pc = StartPc(prog)
    /\ defined = {}
    /\ hw = HwInit
    /\ T = 0
    /\ ii = 0
    /\ jj = 0
    /\ timeline = <<>>
    /\ period = NoPeriod
    /\ nRun = 0
    /\ data = "none"
    /\ file = NoFile
    /\ events = <<>>
    /\ resp = <<>>
    /\ ana = NoAna

-----------------------------------------------------------------------------
(* ramsey_echo.py : the script body                                        *)

\* lines 15-23: the names assigned before the selection
R_PreambleNames == {"WHICH_QUBIT", "USE_JPA", "WITH_COUPLER", "ADDRESS", "PORT",
                    "EXT_REF_CLK", "jpa_bias_port"}

R_SelectorNames == {"readout_freq", "control_amp_90", "control_freq", "control_port",
                    "jpa_pump_freq", "jpa_pump_pwr", "jpa_bias"}

R_ConstantNames == {"readout_amp", "readout_duration", "readout_port", "control_if",
                    "control_duration", "sample_duration", "sample_port",
                    "num_averages", "nr_delays", "dt_delays", "wait_delay",
                    "readout_sample_delay"}

\* faulty variant: the second branch is a plain else, every other selector is qubit 2
R_ValidQubitElse(q) == TRUE

\* lines 25, 38, 52: WHICH_QUBIT == 1, elif WHICH_QUBIT == 2, else raise
R_ValidQubit(q) == q = 1 \/ q = 2

\* lines 25-53: the names the selected branch assigns
R_Assigned(q, wc) ==
    R_SelectorNames \cup (IF q = 2 /\ ~wc THEN {"control_amp_180"} ELSE {})

control_port == IF cfg.WHICH_QUBIT = 1 THEN control_port_q1 ELSE control_port_q2

\* lines 25-53: if WHICH_QUBIT == 1 ... elif WHICH_QUBIT == 2 ... else: raise ValueError
R_SelectQubit ==
    /\ pc = "r_select"
    /\ IF R_ValidQubit(cfg.WHICH_QUBIT)
       THEN /\ defined' = R_PreambleNames \cup R_Assigned(cfg.WHICH_QUBIT, cfg.WITH_COUPLER)
            /\ pc' = "r_consts"
       ELSE /\ defined' = R_PreambleNames
            /\ pc' = "ValueError"
    /\ UNCHANGED <<prog, cfg, hw, T, ii, jj, timeline, period, nRun, data, file,
                   events, resp, ana>>

\* lines 55-76: the remaining constants
R_Constants ==
    /\ pc = "r_consts"
    /\ defined' = defined \cup R_ConstantNames
    /\ pc' = "r_connect"
    /\ UNCHANGED <<prog, cfg, hw, T, ii, jj, timeline, period, nRun, data, file,
                   events, resp, ana>>

\* lines 79-87: with pulsed.Pulsed(...) as pls
R_Connect ==
    /\ pc = "r_connect"
    /\ hw' = [hw EXCEPT !.connected = TRUE]
    /\ events' = Log(events, "connect")
    /\ pc' = "r_hw_config"
    /\ UNCHANGED <<prog, cfg, defined, T, ii, jj, timeline, period, nRun, data,
                   file, resp, ana>>

\* lines 88-103: attenuation, DAC current, inv-sinc, the two mixers
R_ConfigureHardware ==
    /\ pc = "r_hw_config"
    /\ events' = Log(events, "configure")
    /\ pc' = IF cfg.USE_JPA THEN "r_set_lmx" ELSE "r_setup_lut"
    /\ UNCHANGED <<prog, cfg, defined, hw, T, ii, jj, timeline, period, nRun, data,
                   file, resp, ana>>

\* line 105: pls.hardware.set_lmx(jpa_pump_freq, jpa_pump_pwr)
R_SetLmx ==
    /\ pc = "r_set_lmx"
    /\ hw' = [hw EXCEPT !.lmx = "pump"]
    /\ events' = Log(events, "configure")
    /\ pc' = "r_set_dc_bias"
    /\ UNCHANGED <<prog, cfg, defined, T, ii, jj, timeline, period, nRun, data,
                   file, resp, ana>>

\* lines 106-107: set_dc_bias(jpa_bias_port, jpa_bias); time.sleep(1.0)
R_SetDcBias ==
    /\ pc = "r_set_dc_bias"
    /\ hw' = [hw EXCEPT !.dc_bias = "jpa_bias"]
    /\ events' = Log(events, "configure")
    /\ pc' = "r_setup_lut"
    /\ UNCHANGED <<prog, cfg, defined, T, ii, jj, timeline, period, nRun, data,
                   file, resp, ana>>

\* lines 115-141: frequency and scale lookup tables
R_SetupLuts ==
    /\ pc = "r_setup_lut"
    /\ events' = Log(events, "configure")
    /\ pc' = "r_setup_pulses"
    /\ UNCHANGED <<prog, cfg, defined, hw, T, ii, jj, timeline, period, nRun, data,
                   file, resp, ana>>

\* lines 147-164: readout_pulse and control_pulse_90
R_SetupPulses ==
    /\ pc = "r_setup_pulses"
    /\ events' = Log(events, "configure")
    /\ pc' = "r_setup_pulse_180"
    /\ UNCHANGED <<prog, cfg, defined, hw, T, ii, jj, timeline, period, nRun, data,
                   file, resp, ana>>

\* lines 165-171: control_pulse_180 reads control_amp_180; an unassigned name
\* raises NameError, which leaves the with block (the connection is closed)
R_SetupPulse180 ==
    /\ pc = "r_setup_pulse_180"
    /\ IF "control_amp_180" \in defined
       THEN /\ pc' = "r_setup_store"
            /\ hw' = hw
            /\ events' = Log(events, "configure")
       ELSE /\ pc' = "NameError"
            /\ hw' = [hw EXCEPT !.connected = FALSE]
            /\ events' = Log(events, "disconnect")
    /\ UNCHANGED <<prog, cfg, defined, T, ii, jj, timeline, period, nRun, data,
                   file, resp, ana>>

\* faulty variant: the sweep counts from 1
R_FirstIndexOne == 0 + 1

\* line 181: range(nr_delays) starts the sweep index at 0
R_FirstIndex == 0

\* lines 174-181: store ports and duration; T = 0.0; for ii in range(nr_delays)
R_SetupStore ==
    /\ pc = "r_setup_store"
    /\ events' = Log(events, "configure")
    /\ T' = 0
    /\ ii' = R_FirstIndex
    /\ pc' = IF 0 < cfg.nr_delays THEN "r_reset_control" ELSE "r_run"
    /\ UNCHANGED <<prog, cfg, defined, hw, jj, timeline, period, nRun, data, file,
                   resp, ana>>

(* Time bookkeeping of the pulse loop, lines 180-204                        *)

\* faulty variant: the halved delay taken with integer division (ii * dt_delays // 2)
R_HalfDelayFloor(i) == Tm((i * cfg.dt_delays) \div 2)

\* lines 187 and 192: ii * dt_delays / 2, in half-ticks
R_HalfDelay(i) == HalfTm(i * cfg.dt_delays)

\* lines 185-187: T += control_duration; T += ii * dt_delays / 2
R_AfterFirstPi2(t, i) == t + Tm(cfg.control_duration) + R_HalfDelay(i)

\* faulty variant: the pi pulse does not advance T by its own duration
R_AfterPiNoDuration(t, i) == t + R_HalfDelay(i)

\* lines 190-192: T += control_duration; T += ii * dt_delays / 2
R_AfterPi(t, i) == t + Tm(cfg.control_duration) + R_HalfDelay(i)

\* line 195: T += control_duration
R_AfterSecondPi2(t) == t + Tm(cfg.control_duration)

\* line 201: T + readout_sample_delay
R_StoreTime(t) == t + Tm(cfg.readout_sample_delay)

\* faulty variant: the wait for the qubit to decay is left out
R_NextPointNoWait(t) == t + Tm(cfg.readout_duration)

\* lines 203-204: T += readout_duration; T += wait_delay
R_NextPoint(t) == t + Tm(cfg.readout_duration) + Tm(cfg.wait_delay)

\* lines 156-171: both control templates hold control_ns samples
R_ControlPulseDur == Tm(cfg.control_duration)

\* lines 147-155: setup_long_drive(duration=readout_duration)
R_ReadoutPulseDur == Tm(cfg.readout_duration)

R_Schedule(e, next) ==
    /\ timeline' = Append(timeline, e)
    /\ events' = Log(events, "build")
    /\ pc' = next
    /\ UNCHANGED <<prog, cfg, defined, hw, jj, period, nRun, data, file, resp, ana>>

\* line 182: pls.reset_phase(T, control_port)
R_ResetPhaseControl ==
    /\ pc = "r_reset_control"
    /\ R_Schedule(Entry(T, "reset_phase", "control", control_port, 0, ii), "r_first_pi2")
    /\ UNCHANGED <<T, ii>>

\* lines 184-187: first pi/2 pulse, then wait the first half
R_FirstPi2 ==
    /\ pc = "r_first_pi2"
    /\ R_Schedule(Entry(T, "output_pulse", "control_pulse_90", control_port,
                        R_ControlPulseDur, ii), "r_pi")
    /\ T' = R_AfterFirstPi2(T, ii)
    /\ UNCHANGED ii

\* lines 189-192: pi pulse (echo), then wait the second half
R_PiPulse ==
    /\ pc = "r_pi"
    /\ R_Schedule(Entry(T, "output_pulse", "control_pulse_180", control_port,
                        R_ControlPulseDur, ii), "r_second_pi2")
    /\ T' = R_AfterPi(T, ii)
    /\ UNCHANGED ii

\* lines 194-195: second pi/2 pulse
R_SecondPi2 ==
    /\ pc = "r_second_pi2"
    /\ R_Schedule(Entry(T, "output_pulse", "control_pulse_90_2", control_port,
                        R_ControlPulseDur, ii), "r_reset_readout")
    /\ T' = R_AfterSecondPi2(T)
    /\ UNCHANGED ii

\* line 198: pls.reset_phase(T, readout_port)
R_ResetPhaseReadout ==
    /\ pc = "r_reset_readout"
    /\ R_Schedule(Entry(T, "reset_phase", "readout", readout_port_src, 0, ii), "r_readout")
    /\ UNCHANGED <<T, ii>>

\* line 199: pls.output_pulse(T, readout_pulse)
R_ReadoutPulse ==
    /\ pc = "r_readout"
    /\ R_Schedule(Entry(T, "output_pulse", "readout_pulse", readout_port_src,
                        R_ReadoutPulseDur, ii), "r_store")
    /\ UNCHANGED <<T, ii>>

\* lines 201-204: sampling window, then move to the next iteration
R_Store ==
    /\ pc = "r_store"
    /\ R_Schedule(Entry(R_StoreTime(T), "store", "sample", readout_port_src, 0, ii),
                  IF ii + 1 < R_FirstIndex + cfg.nr_delays THEN "r_reset_control" ELSE "r_run")
    /\ T' = R_NextPoint(T)
    /\ ii' = ii + 1

\* lines 209-214: pls.run(period=T, repeat_count=1, num_averages=num_averages)
R_RunPeriod == T

\* faulty variant: the acquisition is submitted a second time
R_RunRetried ==
    /\ pc = "r_run"
    /\ period' = R_RunPeriod
    /\ nRun' = nRun + 1
    /\ events' = Log(events, "submit")
    /\ pc' = IF nRun = 0 THEN "r_run" ELSE "r_get_store_data"
    /\ UNCHANGED <<prog, cfg, defined, hw, T, ii, jj, timeline, data, file, resp, ana>>

\* lines 209-214: the one call of pls.run
R_Run ==
    /\ pc = "r_run"
    /\ period' = R_RunPeriod
    /\ nRun' = nRun + 1
    /\ events' = Log(events, "submit")
    /\ pc' = "r_get_store_data"
    /\ UNCHANGED <<prog, cfg, defined, hw, T, ii, jj, timeline, data, file, resp, ana>>

\* line 215: t_arr, (data_I, data_Q) = pls.get_store_data()
R_GetStoreData ==
    /\ pc = "r_get_store_data"
    /\ data' = "acquired"
    /\ events' = Log(events, "readback")
    /\ pc' = IF cfg.USE_JPA THEN "r_lmx_off" ELSE "r_exit"
    /\ UNCHANGED <<prog, cfg, defined, hw, T, ii, jj, timeline, period, nRun, file,
                   resp, ana>>

\* line 217: pls.hardware.set_lmx(0.0, 0.0)
R_LmxOff ==
    /\ pc = "r_lmx_off"
    /\ hw' = [hw EXCEPT !.lmx = "off"]
    /\ pc' = "r_dc_bias_off"
    /\ UNCHANGED <<prog, cfg, defined, T, ii, jj, timeline, period, nRun, data, file,
                   events, resp, ana>>

\* line 218: set_dc_bias(jpa_bias_port, 0.0)
R_DcBiasOff ==
    /\ pc = "r_dc_bias_off"
    /\ hw' = [hw EXCEPT !.dc_bias = "zero"]
    /\ pc' = "r_exit"
    /\ UNCHANGED <<prog, cfg, defined, T, ii, jj, timeline, period, nRun, data, file,
                   events, resp, ana>>

\* line 87: the with block ends, the connection is closed
R_Disconnect ==
    /\ pc = "r_exit"
    /\ hw' = [hw EXCEPT !.connected = FALSE]
    /\ events' = Log(events, "disconnect")
    /\ pc' = "r_save"
    /\ UNCHANGED <<prog, cfg, defined, T, ii, jj, timeline, period, nRun, data, file,
                   resp, ana>>

\* lines 237-250: the attributes written to the HDF5 file
R_SavedAttrs == {"num_averages", "control_freq", "control_if", "readout_freq",
                 "readout_duration", "control_duration", "readout_amp",
                 "control_amp_90", "control_amp_180", "sample_duration", "nr_delays",
                 "dt_delays", "wait_delay", "readout_sample_delay"}

\* lines 234-236 and 251-252: the datasets written to the HDF5 file; source_code
\* is the text of the script, line by line
R_SavedDatasets == {"source_code", "t_arr", "store_arr"}

\* lines 88-214: the names the instrument calls, the pulse loop and run read
R_UsedAlways == {"sample_port", "readout_port", "control_port", "readout_freq",
                 "control_freq", "control_if", "readout_amp", "readout_duration",
                 "control_duration", "control_amp_90", "control_amp_180",
                 "sample_duration", "nr_delays", "dt_delays", "readout_sample_delay",
                 "wait_delay", "num_averages"}

\* lines 104-106: read only under USE_JPA
R_UsedJpa == {"jpa_pump_freq", "jpa_pump_pwr", "jpa_bias_port", "jpa_bias"}

R_UsedNames == R_UsedAlways \cup (IF cfg.USE_JPA THEN R_UsedJpa ELSE {})

\* lines 220-253: store_arr = data_I + 1j * data_Q; write the HDF5 file
R_Save ==
    /\ pc = "r_save"
    /\ file' = [written |-> TRUE, attrs |-> R_SavedAttrs, datasets |-> R_SavedDatasets,
                cfg |-> cfg, data |-> data]
    /\ events' = Log(events, "persist")
    /\ pc' = "done"
    /\ UNCHANGED <<prog, cfg, defined, hw, T, ii, jj, timeline, period, nRun, data,
                   resp, ana>>

\* the positions inside the with block at which a driver call is made
R_DriverCallPcs == {"r_connect", "r_hw_config", "r_set_lmx", "r_set_dc_bias",
                    "r_setup_lut", "r_setup_pulses", "r_setup_store",
                    "r_reset_control", "r_first_pi2", "r_pi", "r_second_pi2",
                    "r_reset_readout", "r_readout", "r_store", "r_run",
                    "r_get_store_data", "r_lmx_off", "r_dc_bias_off"}

\* lines 79-218: a driver call raises; the exception leaves the with block, which
\* closes the connection, and ends the script.  Nothing after the failing call runs.
R_DriverError ==
    /\ pc \in R_DriverCallPcs
    /\ hw' = [hw EXCEPT !.connected = FALSE]
    /\ events' = IF hw.connected THEN Log(events, "disconnect") ELSE events
    /\ pc' = "aborted"
    /\ UNCHANGED <<prog, cfg, defined, T, ii, jj, timeline, period, nRun, data, file,
                   resp, ana>>

RamseyNext ==
    \/ R_SelectQubit \/ R_Constants \/ R_Connect \/ R_ConfigureHardware
    \/ R_SetLmx \/ R_SetDcBias \/ R_SetupLuts \/ R_SetupPulses \/ R_SetupPulse180
    \/ R_SetupStore \/ R_ResetPhaseControl \/ R_FirstPi2 \/ R_PiPulse \/ R_SecondPi2
    \/ R_ResetPhaseReadout \/ R_ReadoutPulse \/ R_Store \/ R_Run \/ R_GetStoreData
    \/ R_LmxOff \/ R_DcBiasOff \/ R_Disconnect \/ R_Save \/ R_DriverError

-----------------------------------------------------------------------------
(* t1_memory_coherent.py : T1_memory_coherent.run, save, load, analyze      *)
(* The constructed object (lines 21-62) is the initial state: cfg holds the *)
(* constructor arguments, data = "none" stands for t_arr = store_arr = None *)

T1_Step(tag, next) ==
    /\ events' = Log(events, tag)
    /\ pc' = next

\* lines 71-77: with pulsed.Pulsed(...) as pls
T1_Connect ==
    /\ pc = "t_connect"
    /\ hw' = [hw EXCEPT !.connected = TRUE]
    /\ T1_Step("connect", "t_hw_config")
    /\ UNCHANGED <<prog, cfg, defined, T, ii, jj, timeline, period, nRun, data, file,
                   resp, ana>>

\* lines 78-92: attenuation, DAC currents, inv-sinc, the three mixers
T1_ConfigureHardware ==
    /\ pc = "t_hw_config"
    /\ T1_Step("configure", "t_setup_lut")
    /\ UNCHANGED <<prog, cfg, defined, hw, T, ii, jj, timeline, period, nRun, data,
                   file, resp, ana>>

\* lines 99-101: scale lookup tables
T1_SetupLuts ==
    /\ pc = "t_setup_lut"
    /\ T1_Step("configure", "t_setup_pulses")
    /\ UNCHANGED <<prog, cfg, defined, hw, T, ii, jj, timeline, period, nRun, data,
                   file, resp, ana>>

\* lines 107-132: readout_pulse, control_pulse, memory_pulse
T1_SetupPulses ==
    /\ pc = "t_setup_pulses"
    /\ T1_Step("configure", "t_setup_store")
    /\ UNCHANGED <<prog, cfg, defined, hw, T, ii, jj, timeline, period, nRun, data,
                   file, resp, ana>>

\* lines 135-142: store ports and duration; T = 0.0; for delay in self.delay_arr
T1_SetupStore ==
    /\ pc = "t_setup_store"
    /\ T1_Step("configure", IF Len(cfg.delay_arr) > 0 THEN "t_memory" ELSE "t_run")
    /\ T' = 0
    /\ ii' = 1
    /\ UNCHANGED <<prog, cfg, defined, hw, jj, timeline, period, nRun, data, file,
                   resp, ana>>

\* lines 144-145: T += self.memory_duration; T += delay
T1_AfterMemory(t, delay) == t + Tm(cfg.memory_duration) + Tm(delay)

\* faulty variant: the control pulse does not advance T by its own duration
T1_AfterControlNoDuration(t) == t

\* line 147: T += self.control_duration
T1_AfterControl(t) == t + Tm(cfg.control_duration)

\* line 149: T + self.readout_sample_delay
T1_StoreTime(t) == t + Tm(cfg.readout_sample_delay)

\* lines 150-151: T += self.readout_duration; T += self.wait_delay
T1_NextPoint(t) == t + Tm(cfg.readout_duration) + Tm(cfg.wait_delay)

T1_Schedule(e, next) ==
    /\ timeline' = Append(timeline, e)
    /\ T1_Step("build", next)
    /\ UNCHANGED <<prog, cfg, defined, hw, jj, period, nRun, data, file, resp, ana>>

\* lines 143-145: displace memory, then the swept delay
T1_MemoryPulse ==
    /\ pc = "t_memory"
    /\ T1_Schedule(Entry(T, "output_pulse", "memory_pulse", "memory_port",
                         Tm(cfg.memory_duration), ii), "t_control")
    /\ T' = T1_AfterMemory(T, cfg.delay_arr[ii])
    /\ UNCHANGED ii

\* lines 146-147: pi pulse conditioned on memory in |0>
T1_ControlPulse ==
    /\ pc = "t_control"
    /\ T1_Schedule(Entry(T, "output_pulse", "control_pulse", "control_port",
                         Tm(cfg.control_duration), ii), "t_readout")
    /\ T' = T1_AfterControl(T)
    /\ UNCHANGED ii

\* line 148: readout
T1_ReadoutPulse ==
    /\ pc = "t_readout"
    /\ T1_Schedule(Entry(T, "output_pulse", "readout_pulse", "readout_port",
                         Tm(cfg.readout_duration), ii), "t_store")
    /\ UNCHANGED <<T, ii>>

\* lines 149-151: sampling window, wait for decay, next delay
T1_Store ==
    /\ pc = "t_store"
    /\ T1_Schedule(Entry(T1_StoreTime(T), "store", "sample", "sample_port", 0, ii),
                   IF ii < Len(cfg.delay_arr) THEN "t_memory" ELSE "t_run")
    /\ T' = T1_NextPoint(T)
    /\ ii' = ii + 1

\* faulty variant: the period of the last sweep point alone is given to run
T1_RunPeriodLastPoint ==
    Tm(cfg.memory_duration + cfg.delay_arr[Len(cfg.delay_arr)] + cfg.control_duration
       + cfg.readout_duration + cfg.wait_delay)

\* line 156: pls.run(period=T, repeat_count=1, num_averages=self.num_averages)
T1_RunPeriod == T

\* line 156: the one call of pls.run
T1_Run ==
    /\ pc = "t_run"
    /\ period' = T1_RunPeriod
    /\ nRun' = nRun + 1
    /\ T1_Step("submit", "t_get_store_data")
    /\ UNCHANGED <<prog, cfg, defined, hw, T, ii, jj, timeline, data, file, resp, ana>>

\* line 157: self.t_arr, self.store_arr = pls.get_store_data()
T1_GetStoreData ==
    /\ pc = "t_get_store_data"
    /\ data' = "acquired"
    /\ T1_Step("readback", "t_exit")
    /\ UNCHANGED <<prog, cfg, defined, hw, T, ii, jj, timeline, period, nRun, file,
                   resp, ana>>

\* line 77: the with block ends, the connection is closed
T1_Disconnect ==
    /\ pc = "t_exit"
    /\ hw' = [hw EXCEPT !.connected = FALSE]
    /\ T1_Step("disconnect", "t_save")
    /\ UNCHANGED <<prog, cfg, defined, T, ii, jj, timeline, period, nRun, data, file,
                   resp, ana>>

\* lines 167-176 and 178-184: the scalar attributes load reads back
T1_SavedAttrs == {"readout_freq", "control_freq", "memory_freq", "readout_amp",
                  "control_amp", "memory_amp", "readout_duration", "control_duration",
                  "memory_duration", "sample_duration", "readout_port",
                  "control_port", "memory_port", "sample_port", "wait_delay",
                  "readout_sample_delay", "num_averages"}

\* lines 177, 186, 187: the datasets load reads back
T1_SavedDatasets == {"delay_arr", "t_arr", "store_arr"}

\* Base._save (not in src/): the persisted record holds the parameter set, the
\* result buffer and the source snapshot, under the names load reads
T1_SavedRecord ==
    [written |-> TRUE, attrs |-> T1_SavedAttrs,
     datasets |-> T1_SavedDatasets \cup {"source_code"}, cfg |-> cfg, data |-> data]

\* lines 159-162: return self.save()
T1_Save ==
    /\ pc = "t_save"
    /\ file' = T1_SavedRecord
    /\ T1_Step("persist", "t_returned")
    /\ UNCHANGED <<prog, cfg, defined, hw, T, ii, jj, timeline, period, nRun, data,
                   resp, ana>>

T1_DriverCallPcs == {"t_connect", "t_hw_config", "t_setup_lut", "t_setup_pulses",
                     "t_setup_store", "t_memory", "t_control", "t_readout", "t_store",
                     "t_run", "t_get_store_data"}

\* lines 71-157: a driver call raises; the exception leaves the with block and run
T1_DriverError ==
    /\ pc \in T1_DriverCallPcs
    /\ hw' = [hw EXCEPT !.connected = FALSE]
    /\ events' = IF hw.connected THEN Log(events, "disconnect") ELSE events
    /\ pc' = "aborted"
    /\ UNCHANGED <<prog, cfg, defined, T, ii, jj, timeline, period, nRun, data, file,
                   resp, ana>>

(* load, lines 164-212                                                      *)

\* lines 23-40: the parameters of the constructor
T1_CtorNames == {"readout_freq", "control_freq", "memory_freq", "readout_amp",
                 "control_amp", "memory_amp", "readout_duration", "control_duration",
                 "memory_duration", "sample_duration", "delay_arr", "readout_port",
                 "control_port", "memory_port", "sample_port", "wait_delay",
                 "readout_sample_delay", "num_averages"}

\* lines 189-208: the keyword arguments load passes to cls(...)
T1_LoadKeywords == T1_SavedAttrs \cup {"delay_arr"}

\* lines 167-184: float(h5f.attrs[name]); a duration stored as float64 comes back
\* as the same number
PyFloat(x) == x

\* line 177 and line 52: h5f["delay_arr"][()] is the stored array, the constructor
\* passes it through np.atleast_1d(...).astype(np.float64)
AtLeast1d(a) == [k \in 1..Len(a) |-> PyFloat(a[k])]

\* faulty variant: the two latency arguments are passed to the constructor crossed
T1_LoadCfgCrossed(f) ==
    [BaseCfg EXCEPT !.memory_duration = PyFloat(f.cfg.memory_duration),
                    !.control_duration = PyFloat(f.cfg.control_duration),
                    !.readout_duration = PyFloat(f.cfg.readout_duration),
                    !.delay_arr = AtLeast1d(f.cfg.delay_arr),
                    !.wait_delay = PyFloat(f.cfg.readout_sample_delay),
                    !.readout_sample_delay = PyFloat(f.cfg.wait_delay)]

\* lines 167-208: each value is read under its own name and passed to the
\* constructor under the same name
T1_LoadCfg(f) ==
    [BaseCfg EXCEPT !.memory_duration = PyFloat(f.cfg.memory_duration),
                    !.control_duration = PyFloat(f.cfg.control_duration),
                    !.readout_duration = PyFloat(f.cfg.readout_duration),
                    !.delay_arr = AtLeast1d(f.cfg.delay_arr),
                    !.wait_delay = PyFloat(f.cfg.wait_delay),
                    !.readout_sample_delay = PyFloat(f.cfg.readout_sample_delay)]

\* lines 164-212: load(load_filename); a name missing from the file raises KeyError.
\* The object returned replaces the one that ran: cfg and data are what load read,
\* defined holds the keyword arguments the constructor was given.
T1_Load ==
    /\ pc = "t_returned"
    /\ file.written
    /\ IF T1_SavedAttrs \subseteq file.attrs /\ T1_SavedDatasets \subseteq file.datasets
       THEN /\ cfg' = T1_LoadCfg(file)
            /\ defined' = T1_LoadKeywords
            /\ data' = file.data
            /\ pc' = "t_loaded"
       ELSE /\ UNCHANGED <<cfg, defined, data>>
            /\ pc' = "KeyError"
    /\ UNCHANGED <<prog, hw, T, ii, jj, timeline, period, nRun, file, events, resp, ana>>

(* analyze, lines 214-322                                                   *)

\* lines 294-296: _decay(t, beta, *p) unpacks T1, xe, xg = p; n is the number
\* of positional arguments given after t
DecayAccepts(n) == n - 1 = 3

\* lines 299-310 and 313-322: both fits return three parameters in popt
T1_FitParams(beta_given) == IF beta_given THEN 3 ELSE 4 - 1

\* lines 215-216: the assertions fail on an object that holds no data
T1_AnalyzeNoData ==
    /\ prog = "t1"
    /\ pc = "t_connect"
    /\ data = "none"
    /\ pc' = "AssertionError"
    /\ UNCHANGED <<prog, cfg, defined, hw, T, ii, jj, timeline, period, nRun, data,
                   file, events, resp, ana>>

\* lines 214-238: analyze(beta, all_plots); the raw-data figure; the reduction
T1_AnalyzeBegin ==
    /\ pc \in {"t_returned", "t_loaded"}
    /\ data = "acquired"
    /\ \E bg \in BOOLEAN, ap \in BOOLEAN :
          ana' = [active |-> TRUE, beta_given |-> bg, all_plots |-> ap,
                  npopt |-> 0, figs |-> IF ap THEN 1 ELSE 0]
    /\ T1_Step("analyze", "t_fit")
    /\ UNCHANGED <<prog, cfg, defined, hw, T, ii, jj, timeline, period, nRun, data,
                   file, resp>>

\* lines 302-308 and 319-320: the positional arguments after t with which
\* curve_fit evaluates _decay: my_decay passes beta and the three of p0, the free
\* fit passes the four of p0 (beta, T1, xe, xg)
T1_FitCallArgs(beta_given) == IF beta_given THEN 1 + 3 ELSE 4

\* lines 240-249: the fit converges, or curve_fit raises
T1_Fit ==
    /\ pc = "t_fit"
    /\ IF DecayAccepts(T1_FitCallArgs(ana.beta_given))
       THEN \/ /\ ana' = [ana EXCEPT !.npopt = T1_FitParams(ana.beta_given)]
               /\ pc' = IF ana.all_plots THEN "t_fig2" ELSE "t_fig3"
            \/ /\ ana' = ana
               /\ pc' = "FitError"
       ELSE /\ ana' = ana
            /\ pc' = "DecayError"
    /\ UNCHANGED <<prog, cfg, defined, hw, T, ii, jj, timeline, period, nRun, data,
                   file, events, resp>>

\* lines 251-266: the four-panel figure; line 257 calls _decay(self.delay_arr, *popt)
T1_Fig2 ==
    /\ pc = "t_fig2"
    /\ IF DecayAccepts(ana.npopt)
       THEN /\ ana' = [ana EXCEPT !.figs = @ + 1]
            /\ pc' = "t_fig3"
       ELSE /\ ana' = ana
            /\ pc' = "DecayError"
    /\ UNCHANGED <<prog, cfg, defined, hw, T, ii, jj, timeline, period, nRun, data,
                   file, events, resp>>

\* lines 268-291: the I-quadrature figure; line 284 calls
\* _decay(self.delay_arr, beta, *popt)
T1_Fig3 ==
    /\ pc = "t_fig3"
    /\ IF DecayAccepts(1 + ana.npopt)
       THEN /\ ana' = [ana EXCEPT !.figs = @ + 1]
            /\ pc' = "t_analyzed"
       ELSE /\ ana' = ana
            /\ pc' = "DecayError"
    /\ UNCHANGED <<prog, cfg, defined, hw, T, ii, jj, timeline, period, nRun, data,
                   file, events, resp>>

T1Next ==
    \/ T1_Connect \/ T1_ConfigureHardware \/ T1_SetupLuts \/ T1_SetupPulses
    \/ T1_SetupStore \/ T1_MemoryPulse \/ T1_ControlPulse \/ T1_ReadoutPulse
    \/ T1_Store \/ T1_Run \/ T1_GetStoreData \/ T1_Disconnect \/ T1_Save
    \/ T1_DriverError \/ T1_Load \/ T1_AnalyzeNoData \/ T1_AnalyzeBegin \/ T1_Fit \/ T1_Fig2
    \/ T1_Fig3


-----------------------------------------------------------------------------
(* two_tone_power.py : the script body                                      *)
(* ii (frequency index) and jj (amplitude index) count from 1 in the model  *)

W_Step(tag, next) ==
    /\ events' = Log(events, tag)
    /\ pc' = next

\* a change of mixer or scale while the outputs run is remembered in hw.dirty
W_Touch(h) == [h EXCEPT !.dirty = h.dirty \/ h.running]

\* lines 48-56: with test.Test(...) as lck
W_Connect ==
    /\ pc = "w_connect"
    /\ hw' = [hw EXCEPT !.connected = TRUE]
    /\ W_Step("connect", "w_hw_config")
    /\ UNCHANGED <<prog, cfg, defined, T, ii, jj, timeline, period, nRun, data, file,
                   resp, ana>>

\* lines 57-72: attenuation, DAC currents, inv-sinc; the sweep arrays; resp_arr zeros
W_ConfigureHardware ==
    /\ pc = "w_hw_config"
    /\ resp' = [c \in (1..cfg.nr_amps) \X (1..cfg.nr_freq) |-> 0]
    /\ W_Step("configure", "w_stop_initial")
    /\ UNCHANGED <<prog, cfg, defined, hw, T, ii, jj, timeline, period, nRun, data,
                   file, ana>>

\* line 74: lck.hardware.set_run(False)
W_StopInitial ==
    /\ pc = "w_stop_initial"
    /\ hw' = [hw EXCEPT !.running = FALSE]
    /\ W_Step("configure", "w_initial_mixers")
    /\ UNCHANGED <<prog, cfg, defined, T, ii, jj, timeline, period, nRun, data, file,
                   resp, ana>>

\* lines 75-83: the cavity mixer and the qubit mixer at qubit_freq_arr[0]
W_InitialMixers ==
    /\ pc = "w_initial_mixers"
    /\ hw' = [W_Touch(hw) EXCEPT !.mixer = 1]
    /\ W_Step("configure", "w_initial_frequencies")
    /\ UNCHANGED <<prog, cfg, defined, T, ii, jj, timeline, period, nRun, data, file,
                   resp, ana>>

\* lines 84-85: lck.set_frequency(cavity_port, 0.0); lck.set_frequency(qubit_port, 0.0)
W_InitialFrequencies ==
    /\ pc = "w_initial_frequencies"
    /\ W_Step("configure", "w_initial_scales")
    /\ UNCHANGED <<prog, cfg, defined, hw, T, ii, jj, timeline, period, nRun, data,
                   file, resp, ana>>

\* lines 86-87: set_scale(cavity_port, cavity_amp, ...); set_scale(qubit_port, qubit_amp_arr[0], ...)
W_InitialScales ==
    /\ pc = "w_initial_scales"
    /\ hw' = [W_Touch(hw) EXCEPT !.cavity_scale = 1, !.qubit_scale = 1]
    /\ W_Step("configure", "w_initial_rest")
    /\ UNCHANGED <<prog, cfg, defined, T, ii, jj, timeline, period, nRun, data, file,
                   resp, ana>>

\* lines 88-92: phases, dither, DMA source
W_InitialRest ==
    /\ pc = "w_initial_rest"
    /\ W_Step("configure", "w_start_initial")
    /\ UNCHANGED <<prog, cfg, defined, hw, T, ii, jj, timeline, period, nRun, data,
                   file, resp, ana>>

\* lines 93-100: lck.hardware.set_run(True); the two loops begin
W_StartInitial ==
    /\ pc = "w_start_initial"
    /\ hw' = [hw EXCEPT !.running = TRUE]
    /\ jj' = 1
    /\ ii' = 1
    /\ W_Step("configure", IF cfg.nr_amps > 0 /\ cfg.nr_freq > 0
                           THEN "w_set_run_false" ELSE "w_mute_run")
    /\ UNCHANGED <<prog, cfg, defined, T, timeline, period, nRun, data, file, resp, ana>>

\* faulty variant: the outputs are left running while the point is reconfigured
W_SetRunFalseSkipped ==
    /\ pc = "w_set_run_false"
    /\ hw' = hw
    /\ W_Step("set_run_false", "w_configure_mixer")
    /\ UNCHANGED <<prog, cfg, defined, T, ii, jj, timeline, period, nRun, data, file,
                   resp, ana>>

\* line 101: lck.hardware.set_run(False)
W_SetRunFalse ==
    /\ pc = "w_set_run_false"
    /\ hw' = [hw EXCEPT !.running = FALSE]
    /\ W_Step("set_run_false", "w_configure_mixer")
    /\ UNCHANGED <<prog, cfg, defined, T, ii, jj, timeline, period, nRun, data, file,
                   resp, ana>>

\* lines 102-105: lck.hardware.configure_mixer(freq=qubit_freq, out_ports=qubit_port)
W_ConfigureMixer ==
    /\ pc = "w_configure_mixer"
    /\ hw' = [W_Touch(hw) EXCEPT !.mixer = ii]
    /\ W_Step("configure_mixer", "w_set_scale")
    /\ UNCHANGED <<prog, cfg, defined, T, ii, jj, timeline, period, nRun, data, file,
                   resp, ana>>

\* lines 106-107: lck.set_scale(qubit_port, qubit_amp, qubit_amp); sleep
W_SetScale ==
    /\ pc = "w_set_scale"
    /\ hw' = [W_Touch(hw) EXCEPT !.qubit_scale = jj]
    /\ W_Step("set_scale", "w_start_dma")
    /\ UNCHANGED <<prog, cfg, defined, T, ii, jj, timeline, period, nRun, data, file,
                   resp, ana>>

\* line 108: lck.start_dma(Navg * nr_samples + extra)
W_StartDma ==
    /\ pc = "w_start_dma"
    /\ hw' = [hw EXCEPT !.dma = "started"]
    /\ W_Step("start_dma", "w_set_run_true")
    /\ UNCHANGED <<prog, cfg, defined, T, ii, jj, timeline, period, nRun, data, file,
                   resp, ana>>

\* line 109: lck.hardware.set_run(True)
W_SetRunTrue ==
    /\ pc = "w_set_run_true"
    /\ hw' = [hw EXCEPT !.running = TRUE]
    /\ W_Step("set_run_true", "w_wait_for_dma")
    /\ UNCHANGED <<prog, cfg, defined, T, ii, jj, timeline, period, nRun, data, file,
                   resp, ana>>

\* line 110: lck.wait_for_dma()
W_WaitForDma ==
    /\ pc = "w_wait_for_dma"
    /\ hw' = [hw EXCEPT !.dma = "complete"]
    /\ W_Step("wait_for_dma", "w_stop_dma")
    /\ UNCHANGED <<prog, cfg, defined, T, ii, jj, timeline, period, nRun, data, file,
                   resp, ana>>

\* line 111: lck.stop_dma()
W_StopDma ==
    /\ pc = "w_stop_dma"
    /\ hw' = [hw EXCEPT !.dma = "stopped"]
    /\ W_Step("stop_dma", "w_get_dma_data")
    /\ UNCHANGED <<prog, cfg, defined, T, ii, jj, timeline, period, nRun, data, file,
                   resp, ana>>

\* lines 113-142: read the DMA data, average, resp_arr[jj, ii] = ...; next point
W_GetDmaData ==
    /\ pc = "w_get_dma_data"
    /\ hw' = [hw EXCEPT !.dma = "idle"]
    /\ resp' = [resp EXCEPT ![<<jj, ii>>] = @ + 1]
    /\ data' = "acquired"
    /\ IF ii < cfg.nr_freq
       THEN ii' = ii + 1 /\ jj' = jj /\ W_Step("get_dma_data", "w_set_run_false")
       ELSE IF jj < cfg.nr_amps
            THEN ii' = 1 /\ jj' = jj + 1 /\ W_Step("get_dma_data", "w_set_run_false")
            ELSE ii' = ii /\ jj' = jj /\ W_Step("get_dma_data", "w_mute_run")
    /\ UNCHANGED <<prog, cfg, defined, T, timeline, period, nRun, file, ana>>

\* line 146: lck.hardware.set_run(False)
W_MuteRun ==
    /\ pc = "w_mute_run"
    /\ hw' = [hw EXCEPT !.running = FALSE]
    /\ W_Step("mute", "w_mute_cavity")
    /\ UNCHANGED <<prog, cfg, defined, T, ii, jj, timeline, period, nRun, data, file,
                   resp, ana>>

\* line 147: lck.set_scale(cavity_port, 0.0, 0.0)
W_MuteCavity ==
    /\ pc = "w_mute_cavity"
    /\ hw' = [W_Touch(hw) EXCEPT !.cavity_scale = 0]
    /\ W_Step("mute", "w_mute_qubit")
    /\ UNCHANGED <<prog, cfg, defined, T, ii, jj, timeline, period, nRun, data, file,
                   resp, ana>>

\* line 148: lck.set_scale(qubit_port, 0.0, 0.0)
W_MuteQubit ==
    /\ pc = "w_mute_qubit"
    /\ hw' = [W_Touch(hw) EXCEPT !.qubit_scale = 0]
    /\ W_Step("mute", "w_exit")
    /\ UNCHANGED <<prog, cfg, defined, T, ii, jj, timeline, period, nRun, data, file,
                   resp, ana>>

\* line 56: the with block ends, the connection is closed
W_Disconnect ==
    /\ pc = "w_exit"
    /\ hw' = [hw EXCEPT !.connected = FALSE]
    /\ W_Step("disconnect", "w_save")
    /\ UNCHANGED <<prog, cfg, defined, T, ii, jj, timeline, period, nRun, data, file,
                   resp, ana>>

\* lines 165-171: the attributes written to the HDF5 file
W_SavedAttrs == {"df", "dither", "input_port", "cavity_port", "qubit_port",
                 "cavity_amp", "cavity_freq"}

\* lines 162-164 and 172-174: the datasets written to the HDF5 file
W_SavedDatasets == {"source_code", "qubit_freq_arr", "qubit_amp_arr", "resp_arr"}

\* lines 57-148: the names the instrument calls and the reduction of the data read;
\* df stands for nr_samples as well (lines 64-65)
W_UsedNames == {"input_port", "cavity_port", "qubit_port", "cavity_freq", "cavity_amp",
                "dither", "df", "Navg", "extra", "qubit_freq_arr", "qubit_amp_arr"}

\* lines 153-175: write the HDF5 file
W_Save ==
    /\ pc = "w_save"
    /\ file' = [written |-> TRUE, attrs |-> W_SavedAttrs, datasets |-> W_SavedDatasets,
                cfg |-> cfg, data |-> data]
    /\ W_Step("persist", "w_plot")
    /\ UNCHANGED <<prog, cfg, defined, hw, T, ii, jj, timeline, period, nRun, data,
                   resp, ana>>

\* line 180: fig1 = load_two_tone_power.load(save_path); it returns or raises
W_Plot ==
    /\ pc = "w_plot"
    /\ events' = Log(events, "analyze")
    /\ pc' \in {"done", "PlotError"}
    /\ UNCHANGED <<prog, cfg, defined, hw, T, ii, jj, timeline, period, nRun, data,
                   file, resp, ana>>

W_DriverCallPcs == {"w_connect", "w_hw_config", "w_stop_initial", "w_initial_mixers",
                    "w_initial_frequencies", "w_initial_scales", "w_initial_rest",
                    "w_start_initial", "w_set_run_false", "w_configure_mixer",
                    "w_set_scale", "w_start_dma", "w_set_run_true", "w_wait_for_dma",
                    "w_stop_dma", "w_get_dma_data", "w_mute_run", "w_mute_cavity",
                    "w_mute_qubit"}

\* lines 48-148: a driver call raises; the exception leaves the with block, which
\* closes the connection, and ends the script.  Nothing after the failing call runs.
W_DriverError ==
    /\ pc \in W_DriverCallPcs
    /\ hw' = [hw EXCEPT !.connected = FALSE]
    /\ events' = IF hw.connected THEN Log(events, "disconnect") ELSE events
    /\ pc' = "aborted"
    /\ UNCHANGED <<prog, cfg, defined, T, ii, jj, timeline, period, nRun, data, file,
                   resp, ana>>

TwoToneNext ==
    \/ W_Connect \/ W_ConfigureHardware \/ W_StopInitial \/ W_InitialMixers
    \/ W_InitialFrequencies \/ W_InitialScales \/ W_InitialRest
    \/ W_StartInitial \/ W_SetRunFalse \/ W_ConfigureMixer \/ W_SetScale
    \/ W_StartDma \/ W_SetRunTrue \/ W_WaitForDma \/ W_StopDma \/ W_GetDmaData
    \/ W_MuteRun \/ W_MuteCavity \/ W_MuteQubit \/ W_Disconnect \/ W_Save \/ W_Plot
    \/ W_DriverError


Next == RamseyNext \/ T1Next \/ TwoToneNext

Spec == Init /\ [][Next]_vars

\* the sweeps whose delays can be executed: no element of delay_arr is negative
InitSweep ==
    /\ Init
    /\ \A k \in 1..Len(cfg.delay_arr) : cfg.delay_arr[k] >= 0

SpecSweep == InitSweep /\ [][Next]_vars

-----------------------------------------------------------------------------
(* Properties.  Expected times are written in ticks and converted with Tm.  *)

IsRamsey == prog = "ramsey"
IsT1     == prog = "t1"

\* the swept delay of Ramsey-echo sweep point i, d(i) = i * dt_delays, in ticks
R_Delay(i) == i * cfg.dt_delays

\* the per-point period of the Ramsey-echo timeline, in ticks
R_PointPeriod(i) ==
    3 * cfg.control_duration + R_Delay(i) + cfg.readout_duration + cfg.wait_delay

\* the start of sweep point i when the points follow one another from time 0:
\* the sum of R_PointPeriod(k) for k < i, in half-ticks
R_PointStart(i) ==
    i * Tm(3 * cfg.control_duration + cfg.readout_duration + cfg.wait_delay)
    + cfg.dt_delays * i * (i - 1)

\* the offset of an entry of sweep point i from the start of that point, half-ticks
R_Offset(what, i) ==
    CASE what = "control"            -> 0
      [] what = "control_pulse_90"   -> 0
      [] what = "control_pulse_180"  -> Tm(cfg.control_duration) + HalfTm(R_Delay(i))
      [] what = "control_pulse_90_2" -> Tm(2 * cfg.control_duration + R_Delay(i))
      [] what = "readout"            -> Tm(3 * cfg.control_duration + R_Delay(i))
      [] what = "readout_pulse"      -> Tm(3 * cfg.control_duration + R_Delay(i))
      [] what = "sample"             -> Tm(3 * cfg.control_duration + R_Delay(i)
                                           + cfg.readout_sample_delay)

\* C1: every entry of Ramsey-echo sweep point i is scheduled at the start of the
\* point plus its offset (0, c + d/2, 2c + d, 3c + d, 3c + d + latency), the next
\* point starts 3c + d + readout + wait later, and the idle time before the pi
\* pulse equals the idle time after it, both d(i)/2.
C1_RamseyTimeline ==
    IsRamsey =>
       /\ \A k \in 1..Len(timeline) :
             /\ timeline[k].idx \in 0..(cfg.nr_delays - 1)
             /\ timeline[k].t = R_PointStart(timeline[k].idx)
                                + R_Offset(timeline[k].what, timeline[k].idx)
       /\ pc \in {"r_reset_control", "r_run"} => T = R_PointStart(ii)
       /\ \A k \in 1..Len(timeline) :
             timeline[k].what = "control_pulse_180" =>
                LET p1 == timeline[k - 1]
                    p2 == timeline[k]
                IN  /\ p1.what = "control_pulse_90" /\ p1.idx = p2.idx
                    /\ p2.t - (p1.t + p1.dur) = HalfTm(R_Delay(p2.idx))
                    /\ k < Len(timeline) =>
                          LET p3 == timeline[k + 1]
                          IN  /\ p3.what = "control_pulse_90_2" /\ p3.idx = p2.idx
                              /\ p3.t - (p2.t + p2.dur) = HalfTm(R_Delay(p2.idx))

\* a whole sequence was programmed, with at least two points and an odd d(1)
C1_Witness ==
    /\ IsRamsey /\ pc = "r_run"
    /\ cfg.nr_delays >= 2 /\ cfg.dt_delays = 1
    /\ Len(timeline) = 7 * cfg.nr_delays

\* C2: in the whole programmed Ramsey-echo sequence any two pulses on the same
\* output port occupy disjoint intervals [t, t + dur).
C2_NoOverlap ==
    (IsRamsey /\ pc = "r_run") =>
       \A a \in 1..Len(timeline) : \A b \in (a + 1)..Len(timeline) :
          LET p == timeline[a]
              q == timeline[b]
          IN  (p.act = "output_pulse" /\ q.act = "output_pulse" /\ p.port = q.port)
                 => (p.t + p.dur <= q.t \/ q.t + q.dur <= p.t)

\* a whole sequence of several points with zero step: the control pulses touch
C2_Witness ==
    /\ IsRamsey /\ pc = "r_run"
    /\ cfg.nr_delays >= 2 /\ cfg.dt_delays = 0 /\ cfg.wait_delay = 0
    /\ Len(timeline) = 7 * cfg.nr_delays
    /\ \E k \in 1..Len(timeline) :
          timeline[k].what = "control_pulse_180" /\ timeline[k].idx = 1
          /\ timeline[k].t = timeline[k - 1].t + timeline[k - 1].dur

\* the per-point period of the T1 timeline for the k-th delay, in ticks
T1_PointPeriod(k) ==
    cfg.memory_duration + cfg.delay_arr[k] + cfg.control_duration
    + cfg.readout_duration + cfg.wait_delay

\* the start of the k-th T1 sweep point: the periods of the points before it
RECURSIVE T1_PointStart(_)
T1_PointStart(k) ==
    IF k <= 1 THEN 0 ELSE T1_PointStart(k - 1) + Tm(T1_PointPeriod(k - 1))

T1_Offset(what, k) ==
    CASE what = "memory_pulse"  -> 0
      [] what = "control_pulse" -> Tm(cfg.memory_duration + cfg.delay_arr[k])
      [] what = "readout_pulse" -> Tm(cfg.memory_duration + cfg.delay_arr[k]
                                      + cfg.control_duration)
      [] what = "sample"        -> Tm(cfg.memory_duration + cfg.delay_arr[k]
                                      + cfg.control_duration + cfg.readout_sample_delay)

\* C3: every entry of a T1 sweep point is scheduled at the start of the point plus
\* its offset (memory 0, control m + delay, readout m + delay + c, sample at the
\* readout start + latency) and the next point starts m + delay + c + readout + wait
\* after the current one.
C3_T1Timeline ==
    IsT1 =>
       /\ \A k \in 1..Len(timeline) :
             /\ timeline[k].idx \in 1..Len(cfg.delay_arr)
             /\ timeline[k].t = T1_PointStart(timeline[k].idx)
                                + T1_Offset(timeline[k].what, timeline[k].idx)
       /\ pc \in {"t_memory", "t_run"} => T = T1_PointStart(ii)

\* a whole T1 sequence of at least two points with a positive first delay
C3_Witness ==
    /\ IsT1 /\ pc = "t_run"
    /\ Len(cfg.delay_arr) >= 2 /\ cfg.delay_arr[1] > 0
    /\ Len(timeline) = 4 * Len(cfg.delay_arr)

\* the sum of the Ramsey-echo per-point periods of points lo..hi, in half-ticks
RECURSIVE R_SumPeriodsRange(_, _)
R_SumPeriodsRange(lo, hi) ==
    IF lo > hi THEN 0
    ELSE IF lo = hi THEN Tm(R_PointPeriod(lo))
    ELSE LET mid == (lo + hi) \div 2
         IN  R_SumPeriodsRange(lo, mid) + R_SumPeriodsRange(mid + 1, hi)

\* the sum over the points 0..n-1
R_SumPeriods(n) == R_SumPeriodsRange(0, n - 1)

R_IsSourceTiming ==
    /\ cfg.control_duration = control_duration_ns
    /\ cfg.nr_delays = nr_delays_src
    /\ cfg.dt_delays = dt_delays_ns

\* C4: the period given to run in the Ramsey-echo program is the sum over the
\* sweep of 3c + i*dt + readout + wait; with c = 20 ns, 256 points and dt = 400 ns
\* it is at least 3*20 ns + 255*400 ns + readout + wait.
C4_RamseyPeriod ==
    (IsRamsey /\ period # NoPeriod) =>
       /\ period = R_SumPeriods(cfg.nr_delays)
       /\ R_IsSourceTiming =>
             period >= Tm(3 * control_duration_ns + (nr_delays_src - 1) * dt_delays_ns
                          + cfg.readout_duration + cfg.wait_delay)

\* run was called for a sweep of several points with a non-zero step
C4_Witness ==
    /\ IsRamsey /\ nRun = 1 /\ period # NoPeriod
    /\ cfg.nr_delays = MaxDelays /\ cfg.dt_delays > 0 /\ cfg.wait_delay > 0
    /\ period > Tm(R_PointPeriod(cfg.nr_delays - 1))

\* per-point periods of the program that ran, in half-ticks
NrPoints == IF IsRamsey THEN cfg.nr_delays ELSE Len(cfg.delay_arr)

PointPeriods ==
    IF IsRamsey
    THEN [k \in 1..cfg.nr_delays |-> Tm(R_PointPeriod(k - 1))]
    ELSE [k \in 1..Len(cfg.delay_arr) |-> Tm(T1_PointPeriod(k))]

MaxPointPeriod == MaxOf({PointPeriods[k] : k \in 1..NrPoints})

RunWasCalled == (IsRamsey \/ IsT1) /\ period # NoPeriod

\* C5 as written: the period given to run equals the maximum per-point period
C5_PeriodIsMax ==
    RunWasCalled => period = MaxPointPeriod

\* C5 amended: the period given to run is the sum of the per-point periods of all
\* sweep points; it is the maximum per-point period for a sweep of one point, and
\* at least the maximum when no per-point period is negative.
C5_PeriodIsSum ==
    RunWasCalled =>
       /\ period = SumSeq(PointPeriods)
       /\ NrPoints = 1 => period = MaxPointPeriod
       /\ (\A k \in 1..NrPoints : PointPeriods[k] >= 0) => period >= MaxPointPeriod

\* run was called for a sweep of several points whose periods differ
C5_Witness ==
    /\ RunWasCalled /\ nRun = 1
    /\ NrPoints >= 2
    /\ \E a, b \in 1..NrPoints : PointPeriods[a] # PointPeriods[b]
    /\ period > MaxPointPeriod

\* C6: the first Ramsey-echo sweep point has index 0 and delay 0: its pi pulse
\* starts control_duration after the first pi/2 pulse starts, and its second pi/2
\* pulse control_duration after the pi pulse starts, whatever dt_delays is.
C6_IndexZero ==
    IsRamsey =>
       /\ Len(timeline) >= 1 => timeline[1].idx = 0
       /\ Len(timeline) >= 3 =>
             /\ timeline[2].what = "control_pulse_90"
             /\ timeline[3].what = "control_pulse_180"
             /\ timeline[3].t - timeline[2].t = Tm(cfg.control_duration)
       /\ Len(timeline) >= 4 =>
             /\ timeline[4].what = "control_pulse_90_2"
             /\ timeline[4].t - timeline[3].t = Tm(cfg.control_duration)

\* the first point was scheduled with a non-zero step size
C6_Witness ==
    /\ IsRamsey /\ cfg.dt_delays > 0
    /\ Len(timeline) >= 4
    /\ timeline[4].what = "control_pulse_90_2" /\ timeline[4].idx = 0

\* C7: run schedules non-decreasing timestamps in issue order and no negative idle
\* delay between the memory pulse and the control pulse, for any accepted delay_arr.
C7_Monotone ==
    IsT1 =>
       /\ \A k \in 2..Len(timeline) : timeline[k - 1].t <= timeline[k].t
       /\ \A k \in 2..Len(timeline) :
             timeline[k].what = "control_pulse" =>
                timeline[k].t - (timeline[k - 1].t + timeline[k - 1].dur) >= 0

\* the instrument session was opened and has been left, normally or by an exception
SessionLeft == \E k \in 1..Len(events) : events[k] = "disconnect"

\* C8: on every exit path from the instrument session the hardware is released:
\* Ramsey-echo leaves the JPA pump off and the JPA bias at 0, the two-tone sweep
\* leaves the outputs stopped and both scales at 0.
C8_Released ==
    SessionLeft =>
       /\ IsRamsey => (hw.lmx = "off" /\ hw.dc_bias = "zero")
       /\ prog = "twotone" =>
             (~hw.running /\ hw.cavity_scale = 0 /\ hw.qubit_scale = 0)

\* C9: with WHICH_QUBIT neither 1 nor 2 the Ramsey-echo script stops with
\* ValueError before the connection is opened: no instrument call, no acquisition,
\* no data file.
C9_InvalidSelector ==
    (IsRamsey /\ cfg.WHICH_QUBIT \notin {1, 2}) =>
       /\ pc \in {"r_select", "ValueError"}
       /\ hw = HwInit
       /\ events = <<>>
       /\ timeline = <<>>
       /\ nRun = 0
       /\ data = "none"
       /\ file = NoFile

\* the script has stopped with ValueError
C9_Witness ==
    /\ IsRamsey /\ cfg.WHICH_QUBIT \notin {1, 2}
    /\ pc = "ValueError"

\* the order of the phases of a pulsed run
Rank(tag) ==
    CASE tag = "connect"    -> 1
      [] tag = "configure"  -> 2
      [] tag = "build"      -> 3
      [] tag = "submit"     -> 4
      [] tag = "readback"   -> 5
      [] tag = "disconnect" -> 6
      [] tag = "persist"    -> 7
      [] tag = "analyze"    -> 8

FullRun == <<"connect", "configure", "build", "submit", "readback", "disconnect",
             "persist">>

Logged(tag) == \E k \in 1..Len(events) : events[k] = tag

C10_Order ==
    /\ (IsRamsey \/ IsT1) =>
          /\ \A a \in 1..Len(events) : \A b \in (a + 1)..Len(events) :
                Rank(events[a]) < Rank(events[b])
          /\ nRun <= 1
          /\ Logged("submit") <=> nRun = 1
          /\ file.written =>
                /\ SubSeq(events, 1, Len(FullRun)) = FullRun
                /\ ~hw.connected
                /\ file.data = "acquired"
    /\ Logged("analyze") => file.written

\* C10: a run goes connect, configure, build timeline, submit (run called exactly
\* once), read back, disconnect and only then persists the data; a fit or plot
\* happens after the file was written and the written file never changes.
C10_Sequential ==
    /\ [](C10_Order)
    /\ [][file.written => file' = file]_vars

\* a fit failed after the run had been persisted
C10_Witness ==
    /\ IsT1 /\ pc = "FitError"
    /\ file.written /\ nRun = 1
    /\ events = Append(FullRun, "analyze")

\* C11: every parameter that affects the timeline or the calibration is in the
\* written record: the Ramsey-echo file holds every name the instrument calls read
\* (durations, delays, amplitudes, frequencies, ports, JPA pump and bias), the
\* two-tone file holds Navg and extra as well as ports, amplitudes and frequencies.
C11_AllPersisted ==
    file.written =>
       /\ IsRamsey => R_UsedNames \subseteq (file.attrs \cup file.datasets)
       /\ prog = "twotone" => W_UsedNames \subseteq (file.attrs \cup file.datasets)

\* the object at hand was returned by load
T1_IsLoaded == IsT1 /\ defined # {}

\* the duration of a T1 timeline entry as the parameters at hand give it
T1_EntryDur(what) ==
    CASE what = "memory_pulse"  -> Tm(cfg.memory_duration)
      [] what = "control_pulse" -> Tm(cfg.control_duration)
      [] what = "readout_pulse" -> Tm(cfg.readout_duration)
      [] what = "sample"        -> 0

R_Accepted == IsRamsey /\ R_ValidQubit(cfg.WHICH_QUBIT)

\* C13: for every accepted selector (WHICH_QUBIT 1 or 2, with or without coupler)
\* every name the pulse setup and the save step read, control_amp_180 included, is
\* assigned when the connection is opened, and the script never stops with
\* NameError.
C13_AllAssigned ==
    R_Accepted =>
       /\ hw.connected => (R_UsedNames \cup R_SavedAttrs) \subseteq defined
       /\ pc # "NameError"

IsTwoTone == prog = "twotone"

\* the instrument calls of one sweep point, in the order of the claim
W_PointCalls == <<"set_run_false", "configure_mixer", "set_scale", "start_dma",
                  "set_run_true", "wait_for_dma", "stop_dma", "get_dma_data">>

W_IsPointCall(tag) == \E k \in 1..Len(W_PointCalls) : W_PointCalls[k] = tag

\* the number of loop calls logged so far
W_NrCalls == Cardinality({k \in 1..Len(events) : W_IsPointCall(events[k])})

\* the number of sweep points before point (j, i), amplitudes outermost
W_PointsBefore(j, i) == (j - 1) * cfg.nr_freq + (i - 1)

W_LoopPcs == <<"w_set_run_false", "w_configure_mixer", "w_set_scale", "w_start_dma",
               "w_set_run_true", "w_wait_for_dma", "w_stop_dma", "w_get_dma_data">>

W_Finished == IsTwoTone /\ pc \in {"w_exit", "w_save", "w_plot", "done", "PlotError"}

C14_Order ==
    IsTwoTone =>
       \* the calls of the loop come in the order of W_PointCalls, point after point
       /\ \A k \in 1..Len(events) :
             W_IsPointCall(events[k]) =>
                /\ k >= 3
                /\ events[k] = W_PointCalls[((k - 3) % Len(W_PointCalls)) + 1]
       \* and the point at hand is the one the count of calls gives
       /\ \A n \in 1..Len(W_LoopPcs) :
             pc = W_LoopPcs[n] =>
                W_NrCalls = Len(W_PointCalls) * W_PointsBefore(jj, ii) + (n - 1)
       \* mixer and scale were never changed while the outputs ran
       /\ ~hw.dirty
       \* the DMA is started with the outputs stopped and the point's mixer and scale
       /\ pc \in {"w_set_run_true", "w_wait_for_dma"} =>
             hw.dma = "started" /\ hw.mixer = ii /\ hw.qubit_scale = jj
       /\ pc = "w_set_run_true" => ~hw.running
       /\ pc = "w_wait_for_dma" => hw.running
       \* the data is read after the DMA was stopped
       /\ pc = "w_get_dma_data" => hw.dma = "stopped"
       \* no cell is written twice; the cells before the point at hand are written
       /\ \A c \in DOMAIN resp : resp[c] <= 1
       /\ \A n \in 1..Len(W_LoopPcs) :
             pc = W_LoopPcs[n] =>
                \A c \in DOMAIN resp :
                   resp[c] = IF W_PointsBefore(c[1], c[2]) < W_PointsBefore(jj, ii)
                             THEN 1 ELSE 0
       \* after the last point: every cell written once, outputs stopped, scales 0
       /\ W_Finished =>
             /\ \A c \in DOMAIN resp : resp[c] = 1
             /\ DOMAIN resp = (1..cfg.nr_amps) \X (1..cfg.nr_freq)
             /\ W_NrCalls = Len(W_PointCalls) * cfg.nr_amps * cfg.nr_freq
             /\ ~hw.running /\ hw.cavity_scale = 0 /\ hw.qubit_scale = 0

\* a step that changes the mixer or a scale is taken with the outputs stopped; a
\* step that writes resp_arr writes the cell of the point at hand, with the mixer
\* and the scale of that point
W_StepRule ==
    IsTwoTone =>
       /\ (hw'.mixer # hw.mixer \/ hw'.qubit_scale # hw.qubit_scale
             \/ hw'.cavity_scale # hw.cavity_scale) => ~hw.running
       /\ (resp' # resp /\ pc # "w_hw_config") =>
             /\ hw.mixer = ii /\ hw.qubit_scale = jj /\ hw.dma = "stopped"
             /\ resp' = [resp EXCEPT ![<<jj, ii>>] = 1]

\* C14: for every (jj, ii) the calls are set_run(False), configure_mixer and
\* set_scale, start_dma, set_run(True), wait_for_dma, stop_dma, get_dma_data, in
\* this order; mixer and scale are never changed while the outputs run; each cell
\* resp_arr[jj, ii] is written exactly once; after the last point the outputs are
\* stopped and both scales are 0.
C14_SweepOrder ==
    /\ [](C14_Order)
    /\ [][W_StepRule]_vars

\* a sweep of several amplitudes and several frequencies ran to its end
C14_Witness ==
    /\ W_Finished
    /\ cfg.nr_amps >= 2 /\ cfg.nr_freq >= 2
    /\ \A c \in DOMAIN resp : resp[c] = 1
    /\ ~hw.running /\ hw.qubit_scale = 0

\* C15: every evaluation of _decay in analyze gets the time array, beta and three
\* fit parameters, so analyze never stops inside _decay: when the fit has
\* converged, analyze(all_plots=True) returns three figures and
\* analyze(all_plots=False) returns one.
C15_AnalyzeCompletes ==
    IsT1 =>
       /\ pc # "DecayError"
       /\ pc = "t_fig2" => DecayAccepts(ana.npopt)
       /\ pc = "t_fig3" => DecayAccepts(1 + ana.npopt)
       /\ pc = "t_analyzed" => ana.figs = (IF ana.all_plots THEN 3 ELSE 1)

====
